---- MODULE Spec2Model ----
(***************************************************************************)
(* The call-session servers of Reliance-testcenter.                        *)
(*                                                                         *)
(* src/app.js is the token-admitted WebSocket server: three in-memory maps *)
(* (callStorage, activeConnections, tokenStorage), the GET /sampark setup  *)
(* call, the "connection" handler, the per-channel "message" and "close"   *)
(* listeners, the four event handlers and the 1000 ms close timers.        *)
(*                                                                         *)
(* src/unnamed/part_000 is the file-backed audio sink server (GET /setup   *)
(* and the /connect WebSocket route).  Both programs listen on port 3000   *)
(* by default, so one run of the system is one of the two programs; the    *)
(* variable server says which.                                             *)
(*                                                                         *)
(* Times are integer milliseconds.  Fields of a record that no handler     *)
(* reads back and no property here speaks of (from, to, accountSid,        *)
(* callSid, stopReason, transferReason, wsConnectedTime, the timestamps    *)
(* of log entries and chunks) are left out of the records.                 *)
(*                                                                         *)
(* Each handler runs to completion (one JavaScript event-loop turn), so    *)
(* each is one action.  Requests that change no state are not actions: the *)
(* 400 answers to a setup call with a parameter missing, and the read-only *)
(* /call-summary, /call/:callSid and /health endpoints.  A rejected        *)
(* channel is closed by the server with no listener registered, so it is   *)
(* recorded closed at once.  Frames are delivered to a channel while it is *)
(* open; media payloads are strings, which Buffer.from accepts.            *)
(***************************************************************************)
EXTENDS Integers, Sequences, FiniteSets, TLC

VARIABLES
    server,             \* which program runs: "app" (src/app.js) or "sink" (part_000)
    up,                 \* FALSE once an uncaught exception has ended the process
    now,                \* the wall clock, new Date(), in ms
    callStorage,        \* Map callSid -> call record
    activeConnections,  \* Map callSid -> channel
    tokenStorage,       \* Map token -> callSid
    issued,             \* number of tokens generated so far
    ws,                 \* the channels of app.js, in order of connection
    sent,               \* per channel, the envelopes passed to ws.send
    timers,             \* pending setTimeout callbacks, in firing order
    sinkWs,             \* the channels of part_000's /connect route
    dataFiles,          \* part_000: call ids with a data/<callsid>.json file
    audioDir            \* part_000: audio_data directory exists

vars == <<server, up, now, callStorage, activeConnections, tokenStorage, issued,
          ws, sent, timers, sinkWs, dataFiles, audioDir>>

appVars == <<callStorage, activeConnections, tokenStorage, issued, ws, sent, timers>>
sinkVars == <<sinkWs, dataFiles, audioDir>>

----------------------------------------------------------------------------
(* Bounds of the exploration *)

MaxTicks == 1       \* clock steps explored
TickMs == 1500      \* length of one clock step, ms
MaxTokens == 2      \* calls of GET /sampark explored
MaxConns == 2       \* connection attempts explored, per program
MaxEvents == 2      \* decoded frames handled, over all channels
MaxChunk == 2       \* largest media.chunk

(* Program constants *)

GraceMs == 1000     \* setTimeout delay before ws.close
MediaAckOffset == 1000
ControlAckOffset == 1

----------------------------------------------------------------------------
(* Values *)

Sids == {"A", "B"}            \* call ids a connection request may name
SetupSids == {"A"}            \* call ids GET /sampark is called with
Missing == "missing"          \* a query parameter that is absent
NoSeq == -1                   \* message.sequence_number is undefined
JsonNull == -1                \* JSON.stringify of NaN: null on the wire
NoTime == -1                  \* callData.endTime is undefined
NoDuration == -1              \* callData.duration is undefined
NoFormat == 0                 \* media_format is undefined
NoChunk == -1                 \* message.media is undefined
NoToken == 0                  \* the token query parameter is absent
Formats == {1, 2}
SeqNums == {NoSeq} \cup (0..MaxEvents)

EmptyMap == [x \in {} |-> 0]
MapSet(m, k, v) == [x \in (DOMAIN m) \cup {k} |-> IF x = k THEN v ELSE m[x]]
MapDelete(m, k) == [x \in (DOMAIN m) \ {k} |-> m[x]]
MapGet(m, k, dflt) == IF k \in DOMAIN m THEN m[k] ELSE dflt

(* A decoded frame.  fields: the kind's required scalar fields are all      *)
(* present and truthy; chunk and media_format carry the two fields whose    *)
(* value matters.                                                          *)
Msg(e, s, f, c, mf) ==
    [event |-> e, sequence_number |-> s, fields |-> f, chunk |-> c, media_format |-> mf]

Messages ==
    {Msg("start", s, TRUE, NoChunk, mf) : s \in SeqNums, mf \in Formats}
    \cup {Msg("start", s, FALSE, NoChunk, NoFormat) : s \in SeqNums}
    \cup {Msg("media", s, TRUE, c, NoFormat) : s \in SeqNums, c \in 0..MaxChunk}
    \cup {Msg("media", s, FALSE, NoChunk, NoFormat) : s \in SeqNums}
    \cup {Msg(e, s, f, NoChunk, NoFormat) : e \in {"stop", "xfer"}, s \in SeqNums, f \in BOOLEAN}
    \cup {Msg("dtmf", s, TRUE, NoChunk, NoFormat) : s \in SeqNums}

(* message.sequence_number + k, as it reaches the wire *)
SeqPlus(s, k) == IF s = NoSeq THEN JsonNull ELSE s + k

Envelope(e, s) == [event |-> e, sequence_number |-> s]

(* Math.round((endTime - startTime) / 1000) *)
MathRound(d) == (2 * d + 1000) \div 2000
Duration(startTime, endTime) == MathRound(endTime - startTime)

----------------------------------------------------------------------------
Init ==
    /\ server \in {"app", "sink"}
    /\ up = TRUE
    /\ now = 0
    /\ callStorage = EmptyMap
    /\ activeConnections = EmptyMap
    /\ tokenStorage = EmptyMap
    /\ issued = 0
    /\ ws = <<>>
    /\ sent = <<>>
    /\ timers = <<>>
    /\ sinkWs = <<>>
    /\ dataFiles = {}
    /\ audioDir = FALSE

(* Time passes: up to the horizon, and past it while a close timer waits *)
Tick ==
    /\ up
    /\ \/ now + TickMs <= MaxTicks * TickMs
       \/ timers # <<>> /\ now < Head(timers).due
    /\ now' = now + TickMs
    /\ UNCHANGED <<server, up, appVars, sinkVars>>

----------------------------------------------------------------------------
(* src/app.js *)

NewCallData ==
    [status |-> "initiated", startTime |-> now, endTime |-> NoTime,
     duration |-> NoDuration, mediaFormat |-> NoFormat,
     events |-> <<>>, audioChunks |-> <<>>]

(* generateWebSocketEndpoint: a fresh random token bound to callSid *)
generateWebSocketEndpoint(callSid) ==
    /\ issued' = issued + 1
    /\ tokenStorage' = MapSet(tokenStorage, issued + 1, callSid)

(* GET /sampark with CallSid, From and To present *)
Sampark(callSid) ==
    /\ server = "app" /\ up
    /\ issued < MaxTokens
    /\ callStorage' = MapSet(callStorage, callSid, NewCallData)
    /\ generateWebSocketEndpoint(callSid)
    /\ UNCHANGED <<server, up, now, activeConnections, ws, sent, timers, sinkVars>>

Channel(callSid, token, admitted) ==
    [callSid |-> callSid, token |-> token, admitted |-> admitted,
     readyState |-> IF admitted THEN "open" ELSE "closed"]

TokenValid(callSid, token) ==
    /\ callSid # Missing
    /\ token # NoToken
    /\ token \in DOMAIN tokenStorage
    /\ tokenStorage[token] = callSid

(* tokenStorage.delete(token), with the token kept instead *)
ConsumeToken_Kept(token) == tokenStorage

(* tokenStorage.delete(token) *)
ConsumeToken(token) == MapDelete(tokenStorage, token)

(* wss.on("connection") *)
Connection(callSid, token) ==
    /\ server = "app" /\ up
    /\ Len(ws) < MaxConns
    /\ IF ~TokenValid(callSid, token)
       THEN /\ ws' = Append(ws, Channel(callSid, token, FALSE))
            /\ sent' = Append(sent, <<>>)
            /\ UNCHANGED <<tokenStorage, activeConnections, callStorage>>
       ELSE /\ tokenStorage' = ConsumeToken(token)
            /\ activeConnections' = MapSet(activeConnections, callSid, Len(ws) + 1)
            /\ ws' = Append(ws, Channel(callSid, token, TRUE))
            /\ sent' = Append(sent, <<>>)
            /\ callStorage' =
                 IF callSid \in DOMAIN callStorage
                 THEN [callStorage EXCEPT ![callSid].status = "connected"]
                 ELSE callStorage
    /\ UNCHANGED <<server, up, now, issued, timers, sinkVars>>

(* ws.send(JSON.stringify(envelope)) on channel c *)
Send(c, envelope) == sent' = [sent EXCEPT ![c] = Append(@, envelope)]

ErrorEnvelope(message) ==
    Envelope("error", SeqPlus(message.sequence_number, ControlAckOffset))

(* The ack sent and no close scheduled *)
ScheduleClose_Never(c) == timers' = timers

(* setTimeout(() => ws.close(...), 1000) *)
ScheduleClose(c) == timers' = Append(timers, [ws |-> c, due |-> now + GraceMs])

StartValid(message) == message.fields /\ message.media_format # NoFormat
MediaValid(message) == message.fields /\ message.chunk # NoChunk /\ message.chunk # 0
(* The stop validation left out *)
StopValid_Always(message) == TRUE

StopValid(message) == message.fields
XferValid(message) == message.fields

(* The media echo, numbered in the control band *)
MediaAck_ControlBand(message) ==
    Envelope("media", SeqPlus(message.sequence_number, ControlAckOffset))

(* echoResponse of handleMediaEvent *)
MediaAck(message) ==
    Envelope("media", SeqPlus(message.sequence_number, MediaAckOffset))

(* The handlers run on the record the event has just been logged to *)
handleStartEvent(callSid, message, c, logged) ==
    IF ~StartValid(message)
    THEN /\ Send(c, ErrorEnvelope(message))
         /\ callStorage' = MapSet(callStorage, callSid, logged)
         /\ UNCHANGED timers
    ELSE /\ callStorage' = MapSet(callStorage, callSid,
                [logged EXCEPT !.status = "started",
                               !.mediaFormat = message.media_format])
         /\ Send(c, Envelope("start", SeqPlus(message.sequence_number, ControlAckOffset)))
         /\ UNCHANGED timers

handleMediaEvent(callSid, message, c, logged) ==
    IF ~MediaValid(message)
    THEN /\ Send(c, ErrorEnvelope(message))
         /\ callStorage' = MapSet(callStorage, callSid, logged)
         /\ UNCHANGED timers
    ELSE /\ callStorage' = MapSet(callStorage, callSid,
                [logged EXCEPT !.audioChunks = Append(@, [chunk |-> message.chunk])])
         /\ Send(c, MediaAck(message))
         /\ UNCHANGED timers

handleStopEvent(callSid, message, c, logged) ==
    IF ~StopValid(message)
    THEN /\ Send(c, ErrorEnvelope(message))
         /\ callStorage' = MapSet(callStorage, callSid, logged)
         /\ UNCHANGED timers
    ELSE /\ callStorage' = MapSet(callStorage, callSid,
                [logged EXCEPT !.status = "stopped", !.endTime = now])
         /\ Send(c, Envelope("stop", SeqPlus(message.sequence_number, ControlAckOffset)))
         /\ ScheduleClose(c)

handleXferEvent(callSid, message, c, logged) ==
    IF ~XferValid(message)
    THEN /\ Send(c, ErrorEnvelope(message))
         /\ callStorage' = MapSet(callStorage, callSid, logged)
         /\ UNCHANGED timers
    ELSE /\ callStorage' = MapSet(callStorage, callSid,
                [logged EXCEPT !.status = "transferred", !.endTime = now])
         /\ Send(c, Envelope("xfer", SeqPlus(message.sequence_number, ControlAckOffset)))
         /\ ScheduleClose(c)

LogEntry(message) == message

handleWebSocketEvent(callSid, message, c) ==
    IF callSid \notin DOMAIN callStorage
    THEN /\ Send(c, ErrorEnvelope(message))
         /\ UNCHANGED <<callStorage, timers>>
    ELSE LET logged == [callStorage[callSid] EXCEPT
                            !.events = Append(@, LogEntry(message))]
         IN CASE message.event = "start" -> handleStartEvent(callSid, message, c, logged)
              [] message.event = "media" -> handleMediaEvent(callSid, message, c, logged)
              [] message.event = "stop" -> handleStopEvent(callSid, message, c, logged)
              [] message.event = "xfer" -> handleXferEvent(callSid, message, c, logged)
              [] OTHER -> /\ Send(c, ErrorEnvelope(message))
                          /\ callStorage' = MapSet(callStorage, callSid, logged)
                          /\ UNCHANGED timers

(* Frames handled so far: every handled frame is answered by one ws.send *)
RECURSIVE SumLen(_)
SumLen(ss) == IF ss = <<>> THEN 0 ELSE Len(Head(ss)) + SumLen(Tail(ss))
Handled == SumLen(sent)

(* The sequence numbers the peer uses: it numbers its frames by their      *)
(* position in the call's stream, or leaves the field out.                 *)
ClientSeqNums(callSid) ==
    {NoSeq, Len(MapGet(callStorage, callSid, NewCallData).events)}

Receiving(c) ==
    /\ server = "app" /\ up
    /\ c \in 1..Len(ws)
    /\ ws[c].admitted
    /\ ws[c].readyState = "open"

(* ws.on("message") with a frame that JSON.parse accepts *)
OnMessage(c, message) ==
    /\ Receiving(c)
    /\ Handled < MaxEvents
    /\ message.sequence_number \in ClientSeqNums(ws[c].callSid)
    /\ handleWebSocketEvent(ws[c].callSid, message, c)
    /\ UNCHANGED <<server, up, now, activeConnections, tokenStorage, issued, ws, sinkVars>>

(* ws.on("message") with a frame that JSON.parse rejects: the catch block   *)
(* reads message, which is declared in the try block and is out of scope;   *)
(* building the argument of ws.send throws a ReferenceError out of the      *)
(* listener, nothing is sent, and the exception is uncaught.               *)
OnMessageInvalidJson(c) ==
    /\ Receiving(c)
    /\ up' = FALSE
    /\ UNCHANGED <<server, now, appVars, sinkVars>>

(* ws.on("close"): the peer went away, or the closing handshake finished *)
OnClose(c) ==
    /\ server = "app" /\ up
    /\ c \in 1..Len(ws)
    /\ ws[c].admitted
    /\ ws[c].readyState \in {"open", "closing"}
    /\ ws' = [ws EXCEPT ![c].readyState = "closed"]
    /\ activeConnections' = MapDelete(activeConnections, ws[c].callSid)
    /\ callStorage' =
         IF ws[c].callSid \in DOMAIN callStorage
         THEN LET callData == callStorage[ws[c].callSid]
              IN MapSet(callStorage, ws[c].callSid,
                     [callData EXCEPT !.status = "disconnected",
                                      !.endTime = now,
                                      !.duration = Duration(callData.startTime, now)])
         ELSE callStorage
    /\ UNCHANGED <<server, up, now, tokenStorage, issued, sent, timers, sinkVars>>

(* The timer closing the channel registered for the call id, looked up     *)
(* when it fires, instead of the channel its closure captured              *)
TimerFire_ClosesRegistered ==
    /\ server = "app" /\ up
    /\ timers # <<>>
    /\ now >= Head(timers).due
    /\ timers' = Tail(timers)
    /\ LET callSid == ws[Head(timers).ws].callSid
           target == MapGet(activeConnections, callSid, Head(timers).ws)
       IN ws' = [ws EXCEPT ![target].readyState = IF @ = "open" THEN "closing" ELSE @]
    /\ UNCHANGED <<server, up, now, callStorage, activeConnections, tokenStorage,
                   issued, sent, sinkVars>>

(* The oldest close timer fires: ws.close(1000, ...) *)
TimerFire ==
    /\ server = "app" /\ up
    /\ timers # <<>>
    /\ now >= Head(timers).due
    /\ timers' = Tail(timers)
    /\ ws' = [ws EXCEPT ![Head(timers).ws].readyState =
                            IF @ = "open" THEN "closing" ELSE @]
    /\ UNCHANGED <<server, up, now, callStorage, activeConnections, tokenStorage,
                   issued, sent, sinkVars>>

----------------------------------------------------------------------------
(* src/unnamed/part_000 *)

(* What require("fs").promises exports; part_000 binds it to the name fs *)
FsPromises ==
    {"access", "appendFile", "chmod", "chown", "copyFile", "cp", "lchown", "link",
     "lstat", "mkdir", "mkdtemp", "open", "opendir", "readdir", "readFile",
     "readlink", "realpath", "rename", "rm", "rmdir", "stat", "symlink",
     "truncate", "unlink", "utimes", "watch", "writeFile"}

(* GET /setup with callsid, from and to present: data/<callsid>.json is     *)
(* read, and written as {} when it cannot be read.                         *)
Setup(callsid) ==
    /\ server = "sink" /\ up
    /\ callsid \notin dataFiles
    /\ dataFiles' = dataFiles \cup {callsid}
    /\ UNCHANGED <<server, up, now, appVars, sinkWs, audioDir>>

(* One channel of the /connect route.  listeners: the "message" and "close" *)
(* listeners were registered; writeStream: "none", "open" or "ended";       *)
(* error: the route's catch block ran.                                     *)
SinkChannel(callsid, readyState, listeners, writeStream, error) ==
    [callsid |-> callsid, readyState |-> readyState, listeners |-> listeners,
     writeStream |-> writeStream, error |-> error]

(* app.ws("/connect"): without a callsid the channel is closed with 4000.   *)
(* Otherwise audio_data is created and fs.createWriteStream is called; fs   *)
(* is the promises API, which has no createWriteStream, so the call throws  *)
(* a TypeError before any listener is registered, and the catch block logs  *)
(* it and closes the channel.                                              *)
SinkConnect(callsid) ==
    /\ server = "sink" /\ up
    /\ Len(sinkWs) < MaxConns
    /\ IF callsid = Missing
       THEN /\ sinkWs' = Append(sinkWs, SinkChannel(Missing, "closed", FALSE, "none", FALSE))
            /\ UNCHANGED audioDir
       ELSE /\ audioDir' = TRUE
            /\ sinkWs' = Append(sinkWs,
                   IF "createWriteStream" \in FsPromises
                   THEN SinkChannel(callsid, "open", TRUE, "open", FALSE)
                   ELSE SinkChannel(callsid, "closed", FALSE, "none", TRUE))
    /\ UNCHANGED <<server, up, now, appVars, dataFiles>>

----------------------------------------------------------------------------
Next ==
    \/ Tick
    \/ \E s \in SetupSids : Sampark(s)
    \/ \E s \in Sids \cup {Missing}, t \in (1..issued) \cup {NoToken} : Connection(s, t)
    \/ \E c \in 1..MaxConns, m \in Messages : OnMessage(c, m)
    \/ \E c \in 1..MaxConns : OnMessageInvalidJson(c)
    \/ \E c \in 1..MaxConns : OnClose(c)
    \/ TimerFire
    \/ \E s \in Sids : Setup(s)
    \/ \E s \in Sids \cup {Missing} : SinkConnect(s)

Spec == Init /\ [][Next]_vars

(* The closing handshake that ws.close() started completes: the library     *)
(* emits "close" once the peer answers or its close timeout passes.         *)
CloseCompletes(c) ==
    /\ c \in 1..Len(ws) /\ ws[c].readyState = "closing"
    /\ OnClose(c)

(* The event loop: time passes, a timer that is due runs its callback, and  *)
(* a close the server started completes.  Nothing obliges a client to act.  *)
Fairness ==
    /\ WF_vars(Tick)
    /\ WF_vars(TimerFire)
    /\ \A c \in 1..MaxConns : WF_vars(CloseCompletes(c))

FairSpec == Init /\ [][Next]_vars /\ Fairness

----------------------------------------------------------------------------
(* Properties *)

Chans == 1..Len(ws)
Last(s) == s[Len(s)]
Terminal == {"stopped", "transferred", "disconnected"}
Admitted(c) == ws[c].admitted
CallOf(c) == callStorage[ws[c].callSid]

(* In this step channel c, which existed before, was sent one more envelope *)
Replied(c) == c \in Chans /\ Len(sent'[c]) = Len(sent[c]) + 1
Reply(c) == sent'[c][Len(sent'[c])]

(* In this step the record of call s logged one more inbound event *)
Logged(s) ==
    /\ s \in DOMAIN callStorage /\ s \in DOMAIN callStorage'
    /\ Len(callStorage'[s].events) = Len(callStorage[s].events) + 1
LoggedEvent(s) == callStorage'[s].events[Len(callStorage'[s].events)]

(* In this step the "close" event of admitted channel c was handled *)
Closed(c) ==
    /\ c \in Chans /\ Admitted(c)
    /\ ws[c].readyState # "closed" /\ ws'[c].readyState = "closed"

(* In this step a connection attempt was handled *)
Attempted == Len(ws') = Len(ws) + 1
Attempt == ws'[Len(ws')]

Acks == {"start", "media", "stop", "xfer"}

(* C1: every ack sent for an inbound event that carries sequence_number S  *)
(* is of the event's kind and is numbered S+1000 for media and S+1 for     *)
(* start, stop and xfer.                                                   *)
C1_AckNumbering ==
    [][\A c \in Chans :
          (Replied(c) /\ Reply(c).event \in Acks) =>
             LET e == LoggedEvent(ws[c].callSid)
             IN /\ Logged(ws[c].callSid)
                /\ Reply(c).event = e.event
                /\ e.sequence_number # NoSeq =>
                      Reply(c).sequence_number =
                         e.sequence_number + (IF e.event = "media" THEN 1000 ELSE 1)]_vars

(* A start numbered 0 was acked with 1, then a media numbered 1 with 1001 *)
C1_Witness ==
    \E c \in Chans :
        sent[c] = <<Envelope("start", 1), Envelope("media", 1001)>>

(* C2: when the server-initiated close of a channel completes after a      *)
(* valid start, media x N, stop (or xfer) sequence, the status stays        *)
(* stopped (or transferred).                                               *)
ValidCallSequence(events) ==
    /\ Len(events) >= 2
    /\ events[1].event = "start" /\ StartValid(events[1])
    /\ \A i \in 2..(Len(events) - 1) : events[i].event = "media" /\ MediaValid(events[i])
    /\ Last(events).event \in {"stop", "xfer"} /\ Last(events).fields

C2_CloseKeepsTerminalStatus ==
    [][\A c \in Chans :
          (/\ Closed(c)
           /\ ws[c].readyState = "closing"
           /\ ValidCallSequence(CallOf(c).events))
          => callStorage'[ws[c].callSid].status =
                (IF Last(CallOf(c).events).event = "xfer" THEN "transferred" ELSE "stopped")]_vars

(* C3: a record with an end time and a duration has                         *)
(* duration = floor((endTime - startTime) / 1000).                          *)
C3_DurationIsFloor ==
    \A s \in DOMAIN callStorage :
        (callStorage[s].endTime # NoTime /\ callStorage[s].duration # NoDuration) =>
            callStorage[s].duration =
                (callStorage[s].endTime - callStorage[s].startTime) \div 1000

(* C4: a connection attempt for a call id whose registry entry is a live    *)
(* channel is rejected and leaves the registry, the channels and the call   *)
(* records as they were.                                                   *)
Live(s) ==
    /\ s \in DOMAIN activeConnections
    /\ ws[activeConnections[s]].readyState = "open"

C4_SecondConnectionRejected ==
    [][(Attempted /\ Live(Attempt.callSid)) =>
          /\ ~Attempt.admitted
          /\ activeConnections' = activeConnections
          /\ callStorage' = callStorage
          /\ \A c \in Chans : ws'[c] = ws[c]]_vars

(* C5: a connection attempt is admitted only with a token that is stored   *)
(* for the call id it names and that no admitted channel presented before; *)
(* admission deletes the token; a rejected attempt leaves every token.     *)
C5_TokenExactlyOnce ==
    [][Attempted =>
          IF Attempt.admitted
          THEN /\ Attempt.token \in DOMAIN tokenStorage
               /\ tokenStorage[Attempt.token] = Attempt.callSid
               /\ Attempt.token \notin DOMAIN tokenStorage'
               /\ \A c \in Chans : Admitted(c) => ws[c].token # Attempt.token
          ELSE tokenStorage' = tokenStorage]_vars

(* A token admitted one channel and a later attempt with the same token    *)
(* and call id was rejected.                                               *)
C5_Witness ==
    \E c1, c2 \in Chans :
        /\ c1 < c2
        /\ Admitted(c1) /\ ~Admitted(c2)
        /\ ws[c2].token = ws[c1].token /\ ws[c2].callSid = ws[c1].callSid

(* C6: a frame that is not valid JSON is answered by exactly one error      *)
(* envelope on its channel and leaves the call records unchanged.           *)
C6_InvalidJsonOneError ==
    [][\A c \in Chans :
          OnMessageInvalidJson(c) =>
             /\ Replied(c)
             /\ Reply(c).event = "error"
             /\ callStorage' = callStorage]_vars

(* C7: a channel that closes before any start event leaves the call         *)
(* disconnected with an end time and no registry entry, and the session's   *)
(* audio sink ended without an error.                                      *)
C7_CloseBeforeStart ==
    [][/\ \A c \in Chans :
            (Closed(c) /\ CallOf(c).status \in {"initiated", "connected"}) =>
               /\ callStorage'[ws[c].callSid].status = "disconnected"
               /\ callStorage'[ws[c].callSid].endTime = now
               /\ ws[c].callSid \notin DOMAIN activeConnections'
       /\ \A i \in 1..Len(sinkWs') :
            (sinkWs'[i].callsid # Missing /\ sinkWs'[i].readyState = "closed") =>
               (sinkWs'[i].writeStream = "ended" /\ ~sinkWs'[i].error)]_vars

(* C8: an inbound event logged while the status is stopped, transferred or  *)
(* disconnected leaves the status unchanged.                               *)
C8_TerminalAbsorbing ==
    [][\A s \in DOMAIN callStorage :
          (Logged(s) /\ callStorage[s].status \in Terminal) =>
             callStorage'[s].status = callStorage[s].status]_vars

(* C9: a start ack is sent, and the status moved to started by a start      *)
(* event, only when the status was initiated or connected.                 *)
C9_StartOnlyFromInitial ==
    [][\A c \in Chans :
          (Replied(c) /\ Reply(c).event = "start") =>
             CallOf(c).status \in {"initiated", "connected"}]_vars

(* C10: a media ack is sent, and a chunk recorded, only when the status     *)
(* was started.                                                            *)
C10_MediaOnlyWhenStarted ==
    [][\A c \in Chans :
          (Replied(c) /\ Reply(c).event = "media") =>
             CallOf(c).status = "started"]_vars

(* C11: once a start event has recorded the media format, no later inbound  *)
(* event changes it.                                                       *)
C11_MediaFormatSetOnce ==
    [][\A s \in DOMAIN callStorage :
          (Logged(s) /\ callStorage[s].mediaFormat # NoFormat) =>
             callStorage'[s].mediaFormat = callStorage[s].mediaFormat]_vars

(* C12: once a record's endTime is set, no handler of its channels changes  *)
(* any field of it.                                                        *)
C12_ImmutableAfterEnd ==
    [][\A s \in DOMAIN callStorage :
          (callStorage[s].endTime # NoTime /\ issued' = issued) =>
             callStorage'[s] = callStorage[s]]_vars

IsPrefix(s, t) == Len(s) <= Len(t) /\ SubSeq(t, 1, Len(s)) = s

C14_LogAppendOnly ==
    [][\A s \in DOMAIN callStorage :
          /\ s \in DOMAIN callStorage'
          /\ IsPrefix(callStorage[s].events, callStorage'[s].events)]_vars

(* C15: the step that acks a valid stop or transfer leaves the channel open *)
(* and schedules its close one grace delay later; and, the event loop being *)
(* fair, a channel with such an ack that is not yet closed is eventually    *)
(* closed with the registry entry of its call id removed (or the process    *)
(* has exited, which closes every socket and discards the registry).        *)
CloseAcked(c) ==
    /\ c \in Chans
    /\ \E i \in 1..Len(sent[c]) : sent[c][i].event \in {"stop", "xfer"}

ClosePending(c) == CloseAcked(c) /\ ws[c].readyState # "closed"

Released(c) ==
    /\ c \in Chans
    /\ ws[c].readyState = "closed"
    /\ ws[c].callSid \notin DOMAIN activeConnections

TimerFired == timers # <<>> /\ timers' = Tail(timers)

C17_UnbindGuarded ==
    [][\A c \in Chans :
          (/\ Closed(c)
           /\ ws[c].callSid \in DOMAIN activeConnections
           /\ activeConnections[ws[c].callSid] # c)
          => activeConnections' = activeConnections]_vars

(* C18: a decoded event with required fields missing, or of unknown kind,   *)
(* is logged and answered by exactly one error envelope and no ack; status, *)
(* end time and media format stay and no close is scheduled.               *)
Rejected(e) == ~e.fields \/ e.event \notin Acks

C18_RejectedEvent ==
    [][\A s \in DOMAIN callStorage :
          (Logged(s) /\ Rejected(LoggedEvent(s))) =>
             /\ \E c \in Chans :
                   /\ ws[c].callSid = s
                   /\ Replied(c)
                   /\ Reply(c).event = "error"
                   /\ \A d \in Chans \ {c} : sent'[d] = sent[d]
             /\ callStorage'[s].status = callStorage[s].status
             /\ callStorage'[s].endTime = callStorage[s].endTime
             /\ callStorage'[s].mediaFormat = callStorage[s].mediaFormat
             /\ timers' = timers
             /\ ws' = ws]_vars

(* A stop without its required fields is in the log of a started call and   *)
(* was answered by an error envelope.                                      *)
C18_Witness ==
    \E c \in Chans :
        /\ Len(sent[c]) = 2 /\ sent[c][2].event = "error"
        /\ ws[c].callSid \in DOMAIN callStorage
        /\ Len(CallOf(c).events) = 2
        /\ CallOf(c).events[2].event = "stop" /\ ~CallOf(c).events[2].fields
        /\ CallOf(c).status = "started"

(* C19: every media event that carries a chunk index (0 included), a        *)
(* payload and a timestamp adds one entry to the chunk list, at its end,    *)
(* and is acked.                                                           *)
C19_ChunksKept ==
    [][\A c \in Chans :
          LET s == ws[c].callSid
          IN (/\ Replied(c) /\ Logged(s)
              /\ LoggedEvent(s).event = "media"
              /\ LoggedEvent(s).fields /\ LoggedEvent(s).chunk >= 0)
             => /\ callStorage'[s].audioChunks =
                      Append(callStorage[s].audioChunks, [chunk |-> LoggedEvent(s).chunk])
                /\ Reply(c).event = "media"]_vars

(* C20: an error envelope is numbered sequence_number + 1 when the          *)
(* offending input carried a sequence number and 0 when it carried none.    *)
C20_ErrorNumbering ==
    [][\A c \in Chans :
          (Replied(c) /\ Reply(c).event = "error" /\ Logged(ws[c].callSid)) =>
             LET e == LoggedEvent(ws[c].callSid)
             IN Reply(c).sequence_number =
                   (IF e.sequence_number = NoSeq THEN 0 ELSE e.sequence_number + 1)]_vars

(* C21: in the file-backed sink route every connection that named a call id *)
(* runs without an error, and once its channel has closed its sink has been *)
(* ended, every write having come before that.                             *)
C21_SinkClosedWithoutError ==
    \A i \in 1..Len(sinkWs) :
        sinkWs[i].callsid # Missing =>
            /\ ~sinkWs[i].error
            /\ sinkWs[i].listeners
            /\ sinkWs[i].readyState = "closed" => sinkWs[i].writeStream = "ended"
====
